---- MODULE Spec2Model ----
(***************************************************************************)
(* State-machine model of the health journal web application (main.py):   *)
(* the three tables user_profile, daily_logs and body_fat_history and the *)
(* three POST handlers /setup, /log and /update-body-fat.                  *)
(*                                                                         *)
(* Number representation.  Python floats are modelled as fixed-point      *)
(* integers: weight, height, body fat, walk, consumed, burnt, bmr,        *)
(* total_burn and deficit are held in TENTHS of their unit, fat_loss_g in *)
(* HUNDREDTHS of a gram.  round(x, 0) and round(x, 2) are round-half-even *)
(* as in Python.  Dates are proleptic Gregorian ordinals as returned by   *)
(* date.toordinal(); a form's date text "YYYY-MM-DD" is the triple        *)
(* <<YYYY, MM, DD>>.                                                       *)
(***************************************************************************)
EXTENDS Integers, Sequences, FiniteSets, TLC

VARIABLES
    profiles,   \* rows of table user_profile, in primary-key order
    logs,       \* rows of table daily_logs, in primary-key order
    history,    \* rows of table body_fat_history (body_fat, in tenths of %)
    pc,         \* per worker: position of an in-flight POST /log request
    local,      \* per worker: local variables of the in-flight log_data call
    last,       \* observer: the request handled by the last step and its outcome
    latest      \* observer: per date, the last successfully committed /log submission

vars == <<profiles, logs, history, pc, local, last, latest>>

----------------------------------------------------------------------------
(* Bounds of the model *)

MaxHist == 2            \* body_fat_history rows created in one run
MaxRows == 3            \* daily_logs rows created in one concurrent run

Workers == {1, 2}       \* concurrently served POST /log requests

----------------------------------------------------------------------------
(* Python values *)

Ok(v)    == [ok |-> TRUE, val |-> v]
Raise(e) == [ok |-> FALSE, exc |-> e]

\* The exception r, with the local variable whose assignment raised it
At(name, r) == [ok |-> FALSE, exc |-> r.exc, at |-> name]

\* Option encoding of a nullable column: <<>> is None, <<x>> is x.
None    == <<>>
Some(x) == <<x>>

\* The numerals the forms use, with their value in tenths.
FloatLit ==
    { <<"0", 0>>, <<"2.5", 25>>, <<"18.5", 185>>, <<"22", 220>>, <<"30", 300>>,
      <<"80.5", 805>>, <<"85", 850>>, <<"180", 1800>>, <<"300", 3000>>,
      <<"1500", 15000>>, <<"1801.7", 18017>>, <<"2500", 25000>> }

\* The integer numerals the forms use.
IntLit == { <<"30", 30>>, <<"41", 41>> }

\* float(s) for a form string s: ValueError unless s is a numeral.
ParseFloat(s) ==
    IF \E p \in FloatLit : p[1] = s
    THEN Ok((CHOOSE p \in FloatLit : p[1] = s)[2])
    ELSE Raise("ValueError")

\* int(s) for a form string s: ValueError unless s is an integer numeral
\* ("30.5" and "abc" are both rejected).
ParseInt(s) ==
    IF \E p \in IntLit : p[1] = s
    THEN Ok((CHOOSE p \in IntLit : p[1] = s)[2])
    ELSE Raise("ValueError")

\* float(request.form.get(k)): a missing key gives float(None), a TypeError.
FloatField(form, k) ==
    IF k \in DOMAIN form THEN ParseFloat(form[k]) ELSE Raise("TypeError")

\* int(request.form.get(k))
IntField(form, k) ==
    IF k \in DOMAIN form THEN ParseInt(form[k]) ELSE Raise("TypeError")

\* float(request.form.get(k, d)) where d is already a number
FloatFieldDefault(form, k, d) ==
    IF k \in DOMAIN form THEN ParseFloat(form[k]) ELSE Ok(d)

\* round(n/d) to the nearest integer, ties to even (Python's round), d > 0
RoundHalfEven(n, d) ==
    LET q == n \div d
        r == n - q * d
    IN  IF 2 * r < d THEN q
        ELSE IF 2 * r > d THEN q + 1
        ELSE IF q % 2 = 0 THEN q ELSE q + 1

\* round(x, 0) of a value in tenths, result in tenths
Round0(x) == 10 * RoundHalfEven(x, 10)

----------------------------------------------------------------------------
(* datetime.date *)

IsLeap(y) == y % 4 = 0 /\ (y % 100 # 0 \/ y % 400 = 0)

DaysInMonth(y, m) ==
    IF m = 2 THEN (IF IsLeap(y) THEN 29 ELSE 28)
    ELSE IF m \in {4, 6, 9, 11} THEN 30 ELSE 31

DaysBeforeYear(y) ==
    LET p == y - 1 IN p * 365 + p \div 4 - p \div 100 + p \div 400

RECURSIVE DaysBeforeMonth(_, _)
DaysBeforeMonth(y, m) ==
    IF m = 1 THEN 0 ELSE DaysBeforeMonth(y, m - 1) + DaysInMonth(y, m - 1)

\* date(y, m, d).toordinal()
ToOrdinal(y, m, d) == DaysBeforeYear(y) + DaysBeforeMonth(y, m) + d

\* datetime.strptime(text, '%Y-%m-%d').date(): ValueError on an impossible date
Strptime(t) ==
    IF Len(t) = 3 /\ t[2] \in 1..12 /\ t[3] \in 1..DaysInMonth(t[1], t[2])
    THEN Ok(ToOrdinal(t[1], t[2], t[3]))
    ELSE Raise("ValueError")

\* date.isoweekday(): Monday is 1
IsoWeekday(n) == ((n + 6) % 7) + 1

\* date.weekday(): Monday is 0
Weekday(n) == (n + 6) % 7

\* date.fromordinal(n).strftime('%Y-%m-%d'), as the triple <<Y, M, D>>
Strftime(n) ==
    LET y == CHOOSE yy \in 2020..2030 :
                 DaysBeforeYear(yy) < n /\ n <= DaysBeforeYear(yy + 1)
        k == n - DaysBeforeYear(y)
        m == CHOOSE mm \in 1..12 :
                 DaysBeforeMonth(y, mm) < k
                 /\ k <= DaysBeforeMonth(y, mm) + DaysInMonth(y, mm)
    IN  <<y, m, k - DaysBeforeMonth(y, m)>>

----------------------------------------------------------------------------
(* Helper functions *)

\* get_user_profile(): UserProfile.query.first()
get_user_profile == IF profiles = <<>> THEN None ELSE Some(profiles[1])

\* calculate_katch_mcardle_bmr(weight, body_fat), arguments and result in tenths:
\* round(370 + 21.6 * weight * (1 - body_fat / 100), 0)
calculate_katch_mcardle_bmr(weight, body_fat) ==
    10 * RoundHalfEven(37000000 + 216 * weight * (1000 - body_fat), 100000)

\* fat_loss_g = (deficit / 7700) * 1000 if deficit > 0 else 0, unrounded value
\* as the fraction <<numerator, denominator>> of hundredths of a gram
FatLossRaw(deficit) == IF deficit > 0 THEN <<deficit * 100, 77>> ELSE <<0, 1>>

\* round(fat_loss_g, 2), in hundredths of a gram
Round2(frac) == RoundHalfEven(frac[1], frac[2])

\* get_weekly_summary(): the loop over the rows, acc is the defaultdict
ZeroWeek == [total_burn |-> 0, consumed |-> 0, deficit |-> 0, fat_loss |-> 0, days |-> 0]

week_key(log) == Strftime(log.date - Weekday(log.date))

RECURSIVE WeeklyLoop(_, _, _)
WeeklyLoop(rows, i, acc) ==
    IF i > Len(rows) THEN acc
    ELSE LET log == rows[i]
             k   == week_key(log)
             cur == IF k \in DOMAIN acc THEN acc[k] ELSE ZeroWeek
             new == [total_burn |-> cur.total_burn + log.total_burn,
                     consumed   |-> cur.consumed + log.consumed_calories,
                     deficit    |-> cur.deficit + log.deficit,
                     fat_loss   |-> cur.fat_loss + log.fat_loss_g,
                     days       |-> cur.days + 1]
         IN  WeeklyLoop(rows, i + 1,
                 [x \in DOMAIN acc \cup {k} |-> IF x = k THEN new ELSE acc[x]])

get_weekly_summary == WeeklyLoop(logs, 1, <<>>)

----------------------------------------------------------------------------
(* Requests: the form fields a client may send *)

SetupForms ==
    { [height |-> "180", weight |-> "85", body_fat |-> "22", age |-> "30", gender |-> "male"],
      [height |-> "180", weight |-> "80.5", body_fat |-> "18.5", age |-> "41"],
      [height |-> "180", weight |-> "85", body_fat |-> "abc", age |-> "30", gender |-> "male"],
      [height |-> "180", body_fat |-> "22", age |-> "30.5", gender |-> "male"] }

BodyFatForms == { [body_fat |-> "18.5"], [body_fat |-> "22"], [body_fat |-> "abc"], <<>> }

\* What the observer keeps of a request: how it ended ("done", "error" for a
\* caught exception, "no_profile" for the early return), the form of a /setup
\* or /update-body-fat that was carried out, and the variable whose
\* assignment raised
Seen(op, form, status, at) ==
    [op |-> op, form |-> IF status = "done" /\ op # "log" THEN form ELSE <<>>,
     status |-> status,
     at |-> IF status = "error" THEN at ELSE ""]

\* The /log forms: three dates (Sunday 31 December 2023, Monday 1 and
\* Sunday 7 January 2024, the Monday also as the default of a form without
\* date), fields present and absent, a walk that is no number and
\* <<2024, 2, 30>>, which is no calendar date
LogForms ==
    { [consumed |-> "1801.7"],
      [date |-> <<2024, 1, 1>>, weight |-> "80.5", walk |-> "2.5",
       consumed |-> "2500", burnt |-> "300"],
      [date |-> <<2024, 1, 7>>, weight |-> "85", consumed |-> "1500"],
      [date |-> <<2023, 12, 31>>, weight |-> "80.5", walk |-> "2.5", burnt |-> "300"],
      [date |-> <<2024, 1, 7>>, walk |-> "abc", consumed |-> "1500"],
      [date |-> <<2024, 2, 30>>, consumed |-> "1500"] }

\* The /log forms the concurrent clients send
ConcLogForms ==
    { [consumed |-> "1801.7"],
      [date |-> <<2024, 1, 1>>, weight |-> "80.5", walk |-> "2.5",
       consumed |-> "2500", burnt |-> "300"],
      [date |-> <<2024, 1, 7>>, weight |-> "85", consumed |-> "1500"],
      [date |-> <<2024, 1, 7>>, walk |-> "abc", consumed |-> "1500"] }

\* The days datetime.now() may fall on
Todays == { ToOrdinal(2024, 1, 1) }

----------------------------------------------------------------------------
(* POST /setup *)

\* The try block up to the query: the parsed fields or the exception raised
SetupParse(form) ==
    LET height   == FloatField(form, "height")
        weight   == FloatField(form, "weight")
        body_fat == FloatField(form, "body_fat")
        age      == IntField(form, "age")
    IN  IF ~height.ok THEN At("height", height)
        ELSE IF ~weight.ok THEN At("weight", weight)
        ELSE IF ~body_fat.ok THEN At("body_fat", body_fat)
        ELSE IF ~age.ok THEN At("age", age)
        ELSE Ok([height |-> height.val, weight |-> weight.val,
                 body_fat |-> body_fat.val, age |-> age.val,
                 gender |-> IF "gender" \in DOMAIN form THEN Some(form["gender"]) ELSE None])

\* A /setup that adds a profile row on every submission
SetupWriteAlwaysAdd(rows, f) ==
    Append(rows, [id |-> Len(rows) + 1, height |-> f.height, weight |-> f.weight,
                  body_fat |-> f.body_fat, age |-> f.age, gender |-> f.gender])

\* The user_profile table after the if user / else branch
SetupWrite(rows, f) ==
    IF rows # <<>>
    THEN [rows EXCEPT ![1] = [@ EXCEPT !.height = f.height, !.weight = f.weight,
                                       !.body_fat = f.body_fat, !.age = f.age,
                                       !.gender = f.gender]]
    ELSE Append(rows, [id |-> Len(rows) + 1, height |-> f.height, weight |-> f.weight,
                       body_fat |-> f.body_fat, age |-> f.age, gender |-> f.gender])

\* A /setup that starts the body-fat history afresh for an existing profile
setup_profile_reset_history(form) ==
    LET r == SetupParse(form)
    IN  /\ IF r.ok
           THEN /\ Len(history) < MaxHist
                /\ profiles' = SetupWrite(profiles, r.val)
                /\ history' = IF profiles # <<>> THEN <<r.val.body_fat>>
                            ELSE Append(history, r.val.body_fat)
           ELSE UNCHANGED <<profiles, history>>
        /\ last' = Seen("setup", form, IF r.ok THEN "done" ELSE "error", r.at)
        /\ UNCHANGED <<logs, pc, local, latest>>

setup_profile(form) ==
    LET r == SetupParse(form)
    IN  /\ IF r.ok
           THEN /\ Len(history) < MaxHist
                /\ profiles' = SetupWrite(profiles, r.val)
                /\ history' = Append(history, r.val.body_fat)
           ELSE UNCHANGED <<profiles, history>>
        /\ last' = Seen("setup", form, IF r.ok THEN "done" ELSE "error", r.at)
        /\ UNCHANGED <<logs, pc, local, latest>>

----------------------------------------------------------------------------
(* POST /update-body-fat *)

\* An /update-body-fat without the early return for a missing profile
update_body_fat_unchecked(form) ==
    LET user == get_user_profile
        r    == FloatField(form, "body_fat")
    IN  /\ IF r.ok
           THEN /\ Len(history) < MaxHist
                /\ profiles' = IF user = None THEN profiles
                            ELSE [profiles EXCEPT ![1].body_fat = r.val]
                /\ history' = Append(history, r.val)
           ELSE UNCHANGED <<profiles, history>>
        /\ last' = Seen("update_body_fat", form,
                      IF user = None THEN "no_profile" ELSE IF r.ok THEN "done" ELSE "error",
                      "new_body_fat")
        /\ UNCHANGED <<logs, pc, local, latest>>

\* An /update-body-fat that assigns the new value to the weight column as well
update_body_fat_weight(form) ==
    LET user == get_user_profile
        r    == FloatField(form, "body_fat")
    IN  /\ IF user # None /\ r.ok
           THEN /\ Len(history) < MaxHist
                /\ profiles' = [profiles EXCEPT ![1].body_fat = r.val, ![1].weight = r.val]
                /\ history' = Append(history, r.val)
           ELSE UNCHANGED <<profiles, history>>
        /\ last' = Seen("update_body_fat", form,
                      IF user = None THEN "no_profile" ELSE IF r.ok THEN "done" ELSE "error",
                      "new_body_fat")
        /\ UNCHANGED <<logs, pc, local, latest>>

update_body_fat(form) ==
    LET user == get_user_profile
        r    == FloatField(form, "body_fat")
    IN  /\ IF user # None /\ r.ok
           THEN /\ Len(history) < MaxHist
                /\ profiles' = [profiles EXCEPT ![1].body_fat = r.val]
                /\ history' = Append(history, r.val)
           ELSE UNCHANGED <<profiles, history>>
        /\ last' = Seen("update_body_fat", form,
                      IF user = None THEN "no_profile" ELSE IF r.ok THEN "done" ELSE "error",
                      "new_body_fat")
        /\ UNCHANGED <<logs, pc, local, latest>>

----------------------------------------------------------------------------
(* POST /log *)

\* A parser that takes an unreadable walk distance for 0 instead of raising
LogComputeLenientWalk(form, user, today) ==
    LET text     == IF "date" \in DOMAIN form THEN form["date"] ELSE Strftime(today)
        log_date == Strptime(text)
        weight   == FloatFieldDefault(form, "weight", user.weight)
        walk     == FloatFieldDefault(form, "walk", 0)
        walk_km  == IF walk.ok THEN walk ELSE Ok(0)
        consumed == FloatFieldDefault(form, "consumed", 0)
        burnt    == FloatFieldDefault(form, "burnt", 0)
    IN  IF ~log_date.ok THEN At("log_date", log_date)
        ELSE IF ~weight.ok THEN At("weight", weight)
        ELSE IF ~walk_km.ok THEN At("walk_km", walk_km)
        ELSE IF ~consumed.ok THEN At("consumed", consumed)
        ELSE IF ~burnt.ok THEN At("burnt", burnt)
        ELSE LET bmr        == calculate_katch_mcardle_bmr(weight.val, user.body_fat)
                 total_burn == bmr + (walk_km.val * 60) + burnt.val
                 deficit    == total_burn - consumed.val
                 fat_loss_g == FatLossRaw(deficit)
             IN  Ok([log_date |-> log_date.val, weight |-> weight.val,
                     walk_km |-> walk_km.val, consumed |-> consumed.val,
                     burnt |-> burnt.val, body_fat |-> user.body_fat,
                     total_burn |-> total_burn, deficit |-> deficit,
                     fat_loss_g |-> fat_loss_g])

\* The try block up to the query: the local variables or the exception raised.
\* user is the row returned by get_user_profile(), today the day of datetime.now().
LogCompute(form, user, today) ==
    LET text     == IF "date" \in DOMAIN form THEN form["date"] ELSE Strftime(today)
        log_date == Strptime(text)
        weight   == FloatFieldDefault(form, "weight", user.weight)
        walk_km  == FloatFieldDefault(form, "walk", 0)
        consumed == FloatFieldDefault(form, "consumed", 0)
        burnt    == FloatFieldDefault(form, "burnt", 0)
    IN  IF ~log_date.ok THEN At("log_date", log_date)
        ELSE IF ~weight.ok THEN At("weight", weight)
        ELSE IF ~walk_km.ok THEN At("walk_km", walk_km)
        ELSE IF ~consumed.ok THEN At("consumed", consumed)
        ELSE IF ~burnt.ok THEN At("burnt", burnt)
        ELSE LET bmr        == calculate_katch_mcardle_bmr(weight.val, user.body_fat)
                 total_burn == bmr + (walk_km.val * 60) + burnt.val
                 deficit    == total_burn - consumed.val
                 fat_loss_g == FatLossRaw(deficit)
             IN  Ok([log_date |-> log_date.val, weight |-> weight.val,
                     walk_km |-> walk_km.val, consumed |-> consumed.val,
                     burnt |-> burnt.val, body_fat |-> user.body_fat,
                     total_burn |-> total_burn, deficit |-> deficit,
                     fat_loss_g |-> fat_loss_g])

\* The attribute values both branches assign (rounded where the code rounds)
LogValues(loc) ==
    [weight            |-> loc.weight,
     walk_km           |-> loc.walk_km,
     consumed_calories |-> loc.consumed,
     exercise_burnt    |-> loc.burnt,
     total_burn        |-> Round0(loc.total_burn),
     deficit           |-> Round0(loc.deficit),
     fat_loss_g        |-> Round2(loc.fat_loss_g)]

\* DailyLog.query.filter_by(date=log_date).first(): 0 stands for None.  The
\* query has no ORDER BY, so any matching row may be the one returned.
ExistingLog(rows, log_date) ==
    IF \E i \in 1..Len(rows) : rows[i].date = log_date
    THEN {i \in 1..Len(rows) : rows[i].date = log_date}
    ELSE {0}

\* The UPDATE the session flushes for a row it loaded as `loaded`: only the
\* attributes whose new value differs from the loaded one are written.
FlushUpdate(cur, loaded, new) ==
    [c \in DOMAIN cur |->
        IF c \in DOMAIN new /\ new[c] # loaded[c] THEN new[c] ELSE cur[c]]

\* The INSERT the session flushes for db.session.add(log)
FlushInsert(rows, log_date, new) ==
    Append(rows, [c \in DOMAIN new \cup {"id", "date"} |->
                     IF c = "id" THEN Len(rows) + 1
                     ELSE IF c = "date" THEN log_date ELSE new[c]])

\* A commit that adds a row without regard to the row the query found
CommitLogInsertOnly(rows, log_date, existing, loaded, new) ==
    FlushInsert(rows, log_date, new)

\* db.session.commit() of a log_data call that found `existing`
CommitLog(rows, log_date, existing, loaded, new) ==
    IF existing # 0
    THEN [rows EXCEPT ![existing] = FlushUpdate(@, loaded, new)]
    ELSE FlushInsert(rows, log_date, new)

\* The observer's record of a committed submission
Submitted(loc) ==
    [weight |-> loc.weight, walk_km |-> loc.walk_km, consumed |-> loc.consumed,
     burnt |-> loc.burnt, body_fat |-> loc.body_fat]

Record(d, loc) ==
    [x \in DOMAIN latest \cup {d} |-> IF x = d THEN Submitted(loc) ELSE latest[x]]

\* A /log that also stores the logged weight in the profile
log_data_syncs_weight(form, today) ==
    LET user == get_user_profile
        r    == IF user = None THEN Raise("no_profile") ELSE LogCompute(form, user[1], today)
        st   == IF user = None THEN "no_profile" ELSE IF r.ok THEN "done" ELSE "error"
    IN  /\ \A w \in Workers : pc[w] = "idle"
        /\ IF r.ok
           THEN /\ \E existing \in ExistingLog(logs, r.val.log_date) :
                      logs' = CommitLog(logs, r.val.log_date, existing,
                                        IF existing = 0 THEN <<>> ELSE logs[existing],
                                        LogValues(r.val))
                /\ latest' = Record(r.val.log_date, r.val)
                /\ profiles' = [profiles EXCEPT ![1].weight = r.val.weight]
           ELSE UNCHANGED <<logs, latest, profiles>>
        /\ last' = Seen("log", form, st, r.at)
        /\ UNCHANGED <<history, pc, local>>

\* A POST /log request served from start to end without interleaving
log_data(form, today) ==
    LET user == get_user_profile
        r    == IF user = None THEN Raise("no_profile") ELSE LogCompute(form, user[1], today)
        st   == IF user = None THEN "no_profile" ELSE IF r.ok THEN "done" ELSE "error"
    IN  /\ \A w \in Workers : pc[w] = "idle"
        /\ IF r.ok
           THEN /\ \E existing \in ExistingLog(logs, r.val.log_date) :
                      logs' = CommitLog(logs, r.val.log_date, existing,
                                        IF existing = 0 THEN <<>> ELSE logs[existing],
                                        LogValues(r.val))
                /\ latest' = Record(r.val.log_date, r.val)
           ELSE UNCHANGED <<logs, latest>>
        /\ last' = Seen("log", form, st, r.at)
        /\ UNCHANGED <<profiles, history, pc, local>>

----------------------------------------------------------------------------
(* POST /log served by concurrent workers, one step at a time *)

Idle == <<>>

InFlight == {w \in Workers : pc[w] # "idle"}

\* get_user_profile(), parsing and the computation of the derived values
LogBegin(w, form, today) ==
    LET user == get_user_profile
        r    == IF user = None THEN Raise("no_profile") ELSE LogCompute(form, user[1], today)
        st   == IF user = None THEN "no_profile" ELSE IF r.ok THEN "done" ELSE "error"
    IN  /\ pc[w] = "idle"
        /\ Len(logs) + Cardinality(InFlight) < MaxRows
        /\ IF r.ok
           THEN /\ pc' = [pc EXCEPT ![w] = "lookup"]
                /\ local' = [local EXCEPT ![w] = [loc |-> r.val]]
           ELSE UNCHANGED <<pc, local>>
        /\ last' = Seen("log", form, st, r.at)
        /\ UNCHANGED <<profiles, logs, history, latest>>

\* existing_log = DailyLog.query.filter_by(date=log_date).first()
LogLookup(w) ==
    /\ pc[w] = "lookup"
    /\ \E existing \in ExistingLog(logs, local[w].loc.log_date) :
          local' = [local EXCEPT ![w] =
                       [loc |-> local[w].loc, existing |-> existing,
                        loaded |-> IF existing = 0 THEN <<>> ELSE logs[existing]]]
    /\ pc' = [pc EXCEPT ![w] = "write"]
    /\ UNCHANGED <<profiles, logs, history, last, latest>>

\* if existing_log: assign the attributes, else: db.session.add(DailyLog(...));
\* the change stays in the worker's session until the commit
LogWrite(w) ==
    /\ pc[w] = "write"
    /\ local' = [local EXCEPT ![w] =
                    [loc |-> local[w].loc, existing |-> local[w].existing,
                     loaded |-> local[w].loaded, new |-> LogValues(local[w].loc)]]
    /\ pc' = [pc EXCEPT ![w] = "commit"]
    /\ UNCHANGED <<profiles, logs, history, last, latest>>

\* db.session.commit()
LogCommit(w) ==
    /\ pc[w] = "commit"
    /\ logs' = CommitLog(logs, local[w].loc.log_date, local[w].existing,
                         local[w].loaded, local[w].new)
    /\ latest' = Record(local[w].loc.log_date, local[w].loc)
    /\ pc' = [pc EXCEPT ![w] = "idle"]
    /\ local' = [local EXCEPT ![w] = Idle]
    /\ UNCHANGED <<profiles, history, last>>

----------------------------------------------------------------------------
(* Specifications *)

\* The application after init_db(): three empty tables, no request in flight
Init ==
    /\ profiles = <<>>
    /\ logs = <<>>
    /\ history = <<>>
    /\ pc = [w \in Workers |-> "idle"]
    /\ local = [w \in Workers |-> Idle]
    /\ last = [op |-> "none", form |-> <<>>, status |-> "none", at |-> ""]
    /\ latest = <<>>

\* Requests processed one at a time
Next ==
    \/ \E form \in SetupForms : setup_profile(form)
    \/ \E form \in LogForms, today \in Todays : log_data(form, today)
    \/ \E form \in BodyFatForms : update_body_fat(form)

Spec == Init /\ [][Next]_vars

\* POST /log requests interleaved step by step
NextConc ==
    \/ \E form \in SetupForms : setup_profile(form)
    \/ \E form \in BodyFatForms : update_body_fat(form)
    \/ \E w \in Workers, form \in ConcLogForms, today \in Todays : LogBegin(w, form, today)
    \/ \E w \in Workers : LogLookup(w)
    \/ \E w \in Workers : LogWrite(w)
    \/ \E w \in Workers : LogCommit(w)

SpecConc == Init /\ [][NextConc]_vars

TypeOK ==
    /\ Len(profiles) \in 0..2
    /\ \A w \in Workers : pc[w] \in {"idle", "lookup", "write", "commit"}

----------------------------------------------------------------------------
(* Properties *)

Rows == 1..Len(logs)

\* The numeric value of a numeral of a form that was carried out
Num(text) == (CHOOSE p \in FloatLit : p[1] = text)[2]

\* The derived columns of a row, from a submission's values and the body fat
\* of the profile at the time of the submission
Derived(sub) ==
    LET bmr        == calculate_katch_mcardle_bmr(sub.weight, sub.body_fat)
        total_burn == bmr + 60 * sub.walk_km + sub.burnt
        deficit    == total_burn - sub.consumed
    IN  [total_burn |-> Round0(total_burn), deficit |-> Round0(deficit),
         fat_loss_g |-> Round2(FatLossRaw(deficit))]

\* C1: with requests processed one at a time, the log store holds at most one
\* row per date, a row exists exactly for the dates with a carried-out
\* submission, and the row of a date carries the weight, walk, consumed,
\* burnt and derived values of the most recent carried-out submission for it.
C1_UpsertByDate ==
    /\ \A i, j \in Rows : logs[i].date = logs[j].date => i = j
    /\ DOMAIN latest = {logs[i].date : i \in Rows}
    /\ \A i \in Rows :
          LET sub == latest[logs[i].date]
              d   == Derived(sub)
          IN  /\ logs[i].weight = sub.weight
              /\ logs[i].walk_km = sub.walk_km
              /\ logs[i].consumed_calories = sub.consumed
              /\ logs[i].exercise_burnt = sub.burnt
              /\ logs[i].total_burn = d.total_burn
              /\ logs[i].deficit = d.deficit
              /\ logs[i].fat_loss_g = d.fat_loss_g

\* A row was overwritten: the body fat went from 22 to 18.5, a row stored
\* while it was 22 follows a row that carries a submission made at 18.5, so
\* the earlier row was written again after it had been inserted.
C1_Witness ==
    /\ last.op = "log" /\ last.status = "done"
    /\ history = <<220, 185>>
    /\ \E i, j \in Rows :
          /\ i < j
          /\ latest[logs[i].date].body_fat = 185
          /\ latest[logs[j].date].body_fat = 220

\* C2: with the steps of POST /log requests interleaved, the log store has
\* at most one row per date in every reachable state.
C2_NoDuplicateDate ==
    \A i \in Rows : \A j \in Rows : i < j => logs[i].date # logs[j].date

\* C7: in every stored row the fat-loss estimate is not negative, and it is
\* exactly 0 whenever the stored deficit is less than or equal to 0.
C7_StoredClamp ==
    \A i \in Rows :
        /\ logs[i].fat_loss_g >= 0
        /\ logs[i].deficit <= 0 => logs[i].fat_loss_g = 0

\* C9: at most one profile row exists, and right after a carried-out /setup
\* the profile read back holds exactly the submitted height, weight, body
\* fat, age and gender.
C9_SingleProfile ==
    /\ Len(profiles) <= 1
    /\ (last.op = "setup" /\ last.status = "done") =>
          /\ get_user_profile # None
          /\ LET user == get_user_profile[1]
                 form == last.form
             IN  /\ user.height = Num(form["height"])
                 /\ user.weight = Num(form["weight"])
                 /\ user.body_fat = Num(form["body_fat"])
                 /\ user.age = (CHOOSE p \in IntLit : p[1] = form["age"])[2]
                 /\ user.gender = IF "gender" \in DOMAIN form
                                  THEN Some(form["gender"]) ELSE None

\* A second /setup with other values was carried out on an existing profile.
C9_Witness ==
    /\ last.op = "setup" /\ last.status = "done"
    /\ Len(history) = 2 /\ history[1] # history[2]
    /\ profiles[1].body_fat = history[2]


Tables == <<profiles, logs, history>>

FloatTexts == {p[1] : p \in FloatLit}
IntTexts   == {p[1] : p \in IntLit}

\* A numeric field of the form does not read as a number
SetupBad(form) ==
    \/ \E k \in {"height", "weight", "body_fat"} :
          k \notin DOMAIN form \/ form[k] \notin FloatTexts
    \/ "age" \notin DOMAIN form \/ form["age"] \notin IntTexts

LogBad(form) ==
    \E k \in {"weight", "walk", "consumed", "burnt"} :
        k \in DOMAIN form /\ form[k] \notin FloatTexts

BodyFatBad(form) == "body_fat" \notin DOMAIN form \/ form["body_fat"] \notin FloatTexts

\* C3: a /setup, /log or /update-body-fat request with a numeric field that
\* does not parse leaves the profile, every log row and the body-fat history
\* as they were.
C3_DiscardOnParseError ==
    [][ /\ \A form \in SetupForms :
              (SetupBad(form) /\ setup_profile(form)) => UNCHANGED Tables
        /\ \A form \in LogForms : \A today \in Todays :
              (LogBad(form) /\ log_data(form, today)) => UNCHANGED Tables
        /\ \A form \in BodyFatForms :
              (BodyFatBad(form) /\ update_body_fat(form)) => UNCHANGED Tables ]_vars

\* A /log whose walk field did not parse was discarded while every date,
\* the submitted one included, had a row.
C3_Witness ==
    /\ last.op = "log" /\ last.status = "error" /\ last.at = "walk_km"
    /\ Len(logs) = 3

\* C4: while no profile exists, every /log and /update-body-fat request
\* leaves the profile absent, the log store and the body-fat history unchanged.
C4_NoProfileNoOp ==
    [][ (profiles = <<>> /\ last'.op \in {"log", "update_body_fat"})
            => (UNCHANGED Tables /\ last'.status = "no_profile") ]_vars

\* A /log was refused for lack of a profile.
C4_Witness ==
    /\ profiles = <<>> /\ logs = <<>> /\ history = <<>>
    /\ last.op = "log" /\ last.status = "no_profile"

\* C5: a carried-out /update-body-fat sets the body-fat field of the profile
\* to the submitted value, leaves its other fields as they were and appends
\* exactly one history entry, holding the submitted value.
C5_UpdateBodyFatFrame ==
    [][ (last'.op = "update_body_fat" /\ last'.status = "done") =>
            LET v == Num(last'.form["body_fat"])
            IN  /\ Len(profiles) = 1 /\ Len(profiles') = 1
                /\ profiles'[1].body_fat = v
                /\ \A c \in DOMAIN profiles[1] \ {"body_fat"} :
                      profiles'[1][c] = profiles[1][c]
                /\ DOMAIN profiles'[1] = DOMAIN profiles[1]
                /\ Len(history') = Len(history) + 1
                /\ history'[Len(history')] = v ]_vars

\* An /update-body-fat changed the body fat of the profile.
C5_Witness ==
    /\ last.op = "update_body_fat" /\ last.status = "done"
    /\ Len(history) = 2 /\ history[1] # history[2]
    /\ profiles[1].body_fat = history[2]

\* C6: the body-fat history is append-only: a carried-out /setup or
\* /update-body-fat appends exactly one entry with the submitted body fat,
\* no other step appends, and the history before a step is a prefix of the
\* history after it.
C6_HistoryAppendOnly ==
    [][ /\ Len(history') >= Len(history)
        /\ SubSeq(history', 1, Len(history)) = history
        /\ IF last'.op \in {"setup", "update_body_fat"} /\ last'.status = "done"
           THEN history' = Append(history, Num(last'.form["body_fat"]))
           ELSE history' = history ]_vars

\* A second /setup appended to a history that already had an entry.
C6_Witness ==
    /\ last.op = "setup" /\ last.status = "done"
    /\ Len(history) = 2

\* C10: /log never changes the profile or the body-fat history, and /setup
\* and /update-body-fat never change a log row, so a stored row keeps the
\* values derived from the body fat of the time of its submission.
C10_IndependentStores ==
    [][ /\ last'.op = "log" => (profiles' = profiles /\ history' = history)
        /\ last'.op \in {"setup", "update_body_fat"} => logs' = logs ]_vars

\* The body fat was changed after a row had been stored with a weight other
\* than the profile's, and the row still carries the values derived from the
\* body fat at its submission.
C10_Witness ==
    /\ last.op \in {"setup", "update_body_fat"} /\ last.status = "done"
    /\ \E i \in Rows :
          /\ latest[logs[i].date].body_fat # profiles[1].body_fat
          /\ logs[i].weight # profiles[1].weight
          /\ logs[i].total_burn = Derived(latest[logs[i].date]).total_burn


\* The day a weekly key names
KeyDay(k) == ToOrdinal(k[1], k[2], k[3])

\* 1 January 2024 was a Monday
IsMonday(n) == (n - ToOrdinal(2024, 1, 1)) % 7 = 0

\* The rows whose date falls in the seven days starting with day n
RowsOfWeek(n) == {i \in Rows : n <= logs[i].date /\ logs[i].date <= n + 6}

RECURSIVE SumOf(_, _)
SumOf(S, col) ==
    IF S = {} THEN 0
    ELSE LET i == CHOOSE x \in S : TRUE IN logs[i][col] + SumOf(S \ {i}, col)

\* C8: the weekly summary has exactly one bucket per week that contains a
\* stored log, keyed by the Monday of that week, and the sums and the day
\* count of a bucket are those of exactly the stored logs dated from that
\* Monday to the following Sunday.
C8_WeeklySummary ==
    LET weekly == get_weekly_summary
    IN  /\ \A k \in DOMAIN weekly :
              /\ IsMonday(KeyDay(k))
              /\ RowsOfWeek(KeyDay(k)) # {}
              /\ weekly[k].days = Cardinality(RowsOfWeek(KeyDay(k)))
              /\ weekly[k].total_burn = SumOf(RowsOfWeek(KeyDay(k)), "total_burn")
              /\ weekly[k].consumed = SumOf(RowsOfWeek(KeyDay(k)), "consumed_calories")
              /\ weekly[k].deficit = SumOf(RowsOfWeek(KeyDay(k)), "deficit")
              /\ weekly[k].fat_loss = SumOf(RowsOfWeek(KeyDay(k)), "fat_loss_g")
        /\ \A i \in Rows :
              Cardinality({k \in DOMAIN weekly : i \in RowsOfWeek(KeyDay(k))}) = 1

\* Two logs of one week and a log of the week before are stored: the summary
\* has two buckets, one of them of two days.
C8_Witness ==
    LET weekly == get_weekly_summary
    IN  /\ Len(logs) = 3
        /\ DOMAIN weekly = {<<2023, 12, 25>>, <<2024, 1, 1>>}
        /\ weekly[<<2024, 1, 1>>].days = 2
        /\ weekly[<<2024, 1, 1>>].total_burn > 0

====
